---- MODULE Spec2Model ----
(***************************************************************************)
(* A model of mini-rxjs (src/src/index.ts): Subscription, Subscriber,      *)
(* Observable, pipeFromArray and the operators map and debounceTime.       *)
(*                                                                         *)
(* One Observable is built by piping a user source through a list of       *)
(* operators; it is subscribed up to MaxSubs times.  Subscribing to the    *)
(* piped Observable creates one Subscriber per stage: level 0 is the       *)
(* Subscriber handed to the user's producer, level j the Subscriber handed *)
(* to the producer of the j-th operator, and the top level wraps the       *)
(* caller's (partial) observer.  The caller may add teardowns of its own   *)
(* to the Subscription it got back, and unsubscribe it any number of times.*)
(*                                                                         *)
(* Every method call, observer invocation, teardown and timer operation    *)
(* is appended to trace with the depth of the call stack it happens at,    *)
(* so that "during this call" is the run of deeper entries following it.   *)
(***************************************************************************)
EXTENDS Integers, Sequences, FiniteSets, TLC

\* Bounds of the model.
MaxOps == 2       \* operators passed to pipe
MaxSubs == 2      \* subscribe calls on the piped Observable
MaxSync == 2      \* notifications the user's producer sends inside its body
MaxCalls == 3     \* notifications of the source plus unsubscribe calls of the caller
Delay == 1        \* the argument of debounceTime(delay)

OpKinds == {"map", "debounceTime"}
SubIds == 1..MaxSubs
Levels == 0..MaxOps
Stages == 1..MaxOps

\* Partial<Observer<T>>: the handlers the caller's observer defines.
ObserverKinds ==
  { {"next", "error", "complete"}, {"next", "complete"}, {"next"} }

\* TeardownLogic a user producer returns.
TeardownKinds == {"function", "unsubscribable", "void"}

\* The methods of Observer a user producer calls.
Notifications == {"next", "error", "complete"}

RECURSIVE SeqsUpTo(_, _)
SeqsUpTo(S, n) ==
  IF n = 0 THEN {<<>>}
  ELSE LET shorter == SeqsUpTo(S, n - 1)
       IN shorter \cup {Append(q, x) : q \in shorter, x \in S}

VARIABLES
  operators,  \* the operators passed to pipe, in order
  stream,      \* the piped Observable: the operator kinds wrapped around the source
  producer,    \* the user's producer: [sync, teardown]
  observer,    \* the handlers the caller's observer defines
  subscriber,  \* subscriber[s][j]: [created, isStopped, teardowns]
  index,       \* index[s][j]: the counter i of map stage j in subscription s
  time,        \* time[j]: the timer handle of debounceTime stage j (0: never set)
  timers,      \* pending host timers: [id, due, s, j, v]
  nextTimer,   \* the handle the next setTimeout returns
  now,         \* the virtual clock
  sent,        \* sent[s]: notifications the source has sent in subscription s
  spent,       \* notifications of the source plus unsubscribe calls of the caller
  trace        \* what happened, in order: [k, s, j, v, t, d]

vars ==
  << operators, stream, producer, observer, subscriber, index, time, timers, nextTimer,
     now, sent, spent, trace >>

----------------------------------------------------------------------------
\* pipeFromArray and Observable.pipe

\* An operator applied to an Observable wraps it in a new Observable.
ApplyOperator(fn, observable) == Append(observable, fn)

RECURSIVE ReduceRight(_, _, _)
ReduceRight(fns, n, input) ==
  IF n = 0 THEN input
  ELSE ApplyOperator(fns[Len(fns) - n + 1], ReduceRight(fns, n - 1, input))

RECURSIVE Reduce(_, _, _)
Reduce(fns, n, input) ==
  IF n = 0 THEN input ELSE ApplyOperator(fns[n], Reduce(fns, n - 1, input))

PipeFromArray(fns, input) ==
  IF Len(fns) = 0 THEN input
  ELSE IF Len(fns) = 1 THEN ApplyOperator(fns[1], input)
  ELSE Reduce(fns, Len(fns), input)

Source == <<>>

Pipe(observable, operations) == PipeFromArray(operations, observable)

Top == Len(stream)

----------------------------------------------------------------------------
\* The part of the state the handlers change, as one record.

World ==
  [ subscriber |-> subscriber, index |-> index,
    time |-> time, timers |-> timers, nextTimer |-> nextTimer,
    sent |-> sent, spent |-> spent, trace |-> trace ]

Log(w, k, s, j, v, d) ==
  [w EXCEPT !.trace =
     Append(@, [k |-> k, s |-> s, j |-> j, v |-> v, t |-> now, d |-> d])]

\* TRUE for every world; testing it evaluates w before the next statement runs.
Done(w) == w.nextTimer > 0

NewSubscriber == [created |-> TRUE, isStopped |-> FALSE, teardowns |-> <<>>]
NoSubscriber == [created |-> FALSE, isStopped |-> FALSE, teardowns |-> <<>>]

\* The observer wrapped by Subscriber (s, j): the caller's at the top level,
\* below it the inline observer of operator j + 1, which defines all three.
ObserverDefines(w, s, j, m) ==
  IF j < Top THEN TRUE ELSE m \in observer

\* map's project function
Project(value, i) == 10 * value + i

ClearTimeout(w, handle, s, j, d) ==
  Log([w EXCEPT !.timers = {tm \in @ : tm.id # handle}],
      "clearTimeout", s, j, handle, d)

SetTimeout(w, s, j, value, d) ==
  LET id == w.nextTimer
      w1 == [w EXCEPT !.timers = @ \cup
                        {[id |-> id, due |-> now + Delay, s |-> s,
                          j |-> j, v |-> value]},
                      !.nextTimer = id + 1,
                      !.time[j] = id]
  IN  Log(w1, "setTimeout", s, j, id, d)

AddStoresEmpty(w, s, j, teardown, d) ==
  Log([w EXCEPT !.subscriber[s][j].teardowns = Append(@, teardown)],
      "add", s, j, Len(w.subscriber[s][j].teardowns) + 1, d)

\* Subscription.add: stores the teardown unless it is empty.
Add(w, s, j, teardown, d) ==
  IF teardown.kind # "void"
    THEN Log([w EXCEPT !.subscriber[s][j].teardowns = Append(@, teardown)],
             "add", s, j, Len(w.subscriber[s][j].teardowns) + 1, d)
    ELSE Log(w, "add.nothing", s, j, 0, d)

NextForwardsWhenStopped(w, s, j) == ObserverDefines(w, s, j, "next")

\* Subscriber.next forwards when the observer defines next and isStopped is false.
NextForwards(w, s, j) ==
  ObserverDefines(w, s, j, "next") /\ ~w.subscriber[s][j].isStopped

\* Subscriber.error and Subscriber.complete set isStopped.
Stop(w, s, j) == [w EXCEPT !.subscriber[s][j].isStopped = TRUE]

OperatorReturnsNothing(j) == [kind |-> "void", ref |-> j - 1]

\* The TeardownLogic an operator's producer returns: the upstream Subscriber.
OperatorTeardown(j) == [kind |-> "subscription", ref |-> j - 1]

SourceTeardown == [kind |-> producer.teardown, ref |-> 0 - 1]

RECURSIVE SubscriberNext(_, _, _, _, _), ObserverNext(_, _, _, _, _),
          SubscriberError(_, _, _, _, _), ObserverError(_, _, _, _, _),
          SubscriberComplete(_, _, _, _), ObserverComplete(_, _, _, _),
          Unsubscribe(_, _, _, _), RunTeardowns(_, _, _, _, _)

UnsubscribeStops(w, s, j, d) ==
  RunTeardowns(Log(Stop(w, s, j), "unsubscribe", s, j, 0, d), s, j, 1, d + 1)

UnsubscribeOnce(w, s, j, d) ==
  IF \E n \in DOMAIN w.trace :
       w.trace[n].k = "unsubscribe" /\ w.trace[n].s = s /\ w.trace[n].j = j
    THEN Log(w, "unsubscribe", s, j, 0, d)
    ELSE RunTeardowns(Log(w, "unsubscribe", s, j, 0, d), s, j, 1, d + 1)

UnsubscribeCancelsTimers(w, s, j, d) ==
  RunTeardowns(Log([w EXCEPT !.timers = {tm \in @ : tm.s # s}],
                   "unsubscribe", s, j, 0, d), s, j, 1, d + 1)

\* Subscription.unsubscribe: every teardown of the registry, in order.
Unsubscribe(w, s, j, d) ==
  RunTeardowns(Log(w, "unsubscribe", s, j, 0, d), s, j, 1, d + 1)

RunTeardowns(w, s, j, n, d) ==
  IF n > Len(w.subscriber[s][j].teardowns) THEN w
  ELSE LET teardown == w.subscriber[s][j].teardowns[n]
           w1 == Log(w, "teardown", s, j, n, d)
           w2 == IF teardown.kind = "subscription"
                   THEN Unsubscribe(w1, s, teardown.ref, d + 1)
                   ELSE w1
       IN  IF Done(w2) THEN RunTeardowns(w2, s, j, n + 1, d) ELSE w2

MapNextSharedCounter(w, s, j, value, d) ==
  LET i == w.index[1][j]
  IN  SubscriberNext([w EXCEPT !.index[1][j] = i + 1], s, j,
                     Project(value, i), d)

\* The next handler of map's inline observer; (s, j) is its downstream Subscriber.
MapNext(w, s, j, value, d) ==
  LET i == w.index[s][j]
  IN  SubscriberNext([w EXCEPT !.index[s][j] = i + 1], s, j,
                     Project(value, i), d)

DebounceNextKeepsTimer(w, s, j, value, d) == SetTimeout(w, s, j, value, d)

DebounceNextOwnTimer(w, s, j, value, d) ==
  LET own == \A tm \in w.timers : tm.id = w.time[j] => tm.s = s
      w1 == IF w.time[j] # 0 /\ own THEN ClearTimeout(w, w.time[j], s, j, d)
            ELSE w
  IN  SetTimeout(w1, s, j, value, d)

\* The next handler of debounceTime's inline observer.
DebounceNext(w, s, j, value, d) ==
  LET w1 == IF w.time[j] # 0 THEN ClearTimeout(w, w.time[j], s, j, d) ELSE w
  IN  SetTimeout(w1, s, j, value, d)

DebounceTerminalKeepsTimer(w, s, j, d) == w

\* The error and complete handlers of debounceTime's inline observer clear the
\* timer first.
DebounceTerminal(w, s, j, d) == ClearTimeout(w, w.time[j], s, j, d)

SubscriberNext(w, s, j, value, d) ==
  LET w1 == Log(w, "next", s, j, value, d)
  IN  IF NextForwards(w1, s, j) THEN ObserverNext(w1, s, j, value, d + 1)
      ELSE w1

ObserverNext(w, s, j, value, d) ==
  LET w1 == Log(w, "obs.next", s, j, value, d)
  IN  IF j = Top THEN w1
      ELSE IF stream[j + 1] = "map" THEN MapNext(w1, s, j + 1, value, d + 1)
      ELSE DebounceNext(w1, s, j + 1, value, d + 1)

ErrorAlsoUnsubscribes == TRUE

\* Subscriber.error does not call this.unsubscribe().
ErrorUnsubscribes == FALSE

SubscriberError(w, s, j, err, d) ==
  LET w1 == Stop(Log(w, "error", s, j, err, d), s, j)
      w2 == IF ObserverDefines(w1, s, j, "error")
              THEN ObserverError(w1, s, j, err, d + 1)
              ELSE w1
  IN  IF Done(w2) /\ ErrorUnsubscribes THEN Unsubscribe(w2, s, j, d + 1)
      ELSE w2

ObserverErrorSwallowed(w, s, j, err, d) == Log(w, "obs.error", s, j, err, d)

ObserverError(w, s, j, err, d) ==
  LET w1 == Log(w, "obs.error", s, j, err, d)
  IN  IF j = Top THEN w1
      ELSE IF stream[j + 1] = "map"
        THEN SubscriberError(w1, s, j + 1, err, d + 1)
      ELSE SubscriberError(DebounceTerminal(w1, s, j + 1, d + 1),
                           s, j + 1, err, d + 1)

CompleteKeepsSubscription == FALSE

\* Subscriber.complete ends with this.unsubscribe().
CompleteUnsubscribes == TRUE

SubscriberComplete(w, s, j, d) ==
  LET w1 == Stop(Log(w, "complete", s, j, 0, d), s, j)
      w2 == IF ObserverDefines(w1, s, j, "complete")
              THEN ObserverComplete(w1, s, j, d + 1)
              ELSE w1
  IN  IF Done(w2) /\ CompleteUnsubscribes THEN Unsubscribe(w2, s, j, d + 1)
      ELSE w2

ObserverComplete(w, s, j, d) ==
  LET w1 == Log(w, "obs.complete", s, j, 0, d)
  IN  IF j = Top THEN w1
      ELSE IF stream[j + 1] = "map"
        THEN SubscriberComplete(w1, s, j + 1, d + 1)
      ELSE SubscriberComplete(DebounceTerminal(w1, s, j + 1, d + 1),
                              s, j + 1, d + 1)

\* The source numbers what it sends in one subscription: the n-th notification
\* carries the value n, or the error 400 + n.
SourceValue(w, s) == w.sent[s] + 1
SourceFailure(w, s) == 400 + w.sent[s] + 1

\* A notification the user's producer sends to the Subscriber it was given.
Emit(w, s, m, d) ==
  LET w1 == [w EXCEPT !.sent[s] = @ + 1, !.spent = @ + 1]
  IN  IF m = "next" THEN SubscriberNext(w1, s, 0, SourceValue(w, s), d)
      ELSE IF m = "error" THEN SubscriberError(w1, s, 0, SourceFailure(w, s), d)
      ELSE SubscriberComplete(w1, s, 0, d)

RunSyncNothing(w, s, n, d) == w

\* The body of the user's producer: it sends producer.sync, in order.
RECURSIVE RunSync(_, _, _, _)
RunSync(w, s, n, d) ==
  IF n > Len(producer.sync) THEN w
  ELSE LET w1 == Emit(w, s, producer.sync[n], d)
       IN  IF Done(w1) THEN RunSync(w1, s, n + 1, d) ELSE w1

\* Observable.subscribe on the Observable of level j, and the producers it runs.
RECURSIVE ObservableSubscribe(_, _, _, _)
ObservableSubscribe(w, s, j, d) ==
  LET w1 == Log([w EXCEPT !.subscriber[s][j] = NewSubscriber],
                "subscribe", s, j, 0, d)
      w2 == Log(w1, "producer", s, j, 0, d + 1)
      w3 == IF j = 0 THEN RunSync(w2, s, 1, d + 2)
            ELSE IF stream[j] = "map"
              THEN ObservableSubscribe([w2 EXCEPT !.index[s][j] = 0],
                                       s, j - 1, d + 2)
            ELSE ObservableSubscribe(w2, s, j - 1, d + 2)
      teardown == IF j = 0 THEN SourceTeardown ELSE OperatorTeardown(j)
  IN  IF Done(w3) THEN Add(w3, s, j, teardown, d + 1) ELSE w3

----------------------------------------------------------------------------
\* The state machine.

Install(w) ==
  /\ subscriber' = w.subscriber
  /\ index' = w.index
  /\ time' = w.time
  /\ timers' = w.timers
  /\ nextTimer' = w.nextTimer
  /\ sent' = w.sent
  /\ spent' = w.spent
  /\ trace' = w.trace
  /\ UNCHANGED << operators, stream, producer, observer, now >>


Init ==
  /\ operators \in SeqsUpTo(OpKinds, MaxOps)
  /\ stream = Pipe(Source, operators)
  /\ \E sync \in SeqsUpTo(Notifications, MaxSync), td \in TeardownKinds :
       producer = [sync |-> sync, teardown |-> td]
  /\ observer \in ObserverKinds
  /\ subscriber = [s \in SubIds |-> [j \in Levels |-> NoSubscriber]]
  /\ index = [s \in SubIds |-> [j \in Stages |-> 0]]
  /\ time = [j \in Stages |-> 0]
  /\ timers = {}
  /\ nextTimer = 1
  /\ now = 0
  /\ sent = [s \in SubIds |-> 0]
  /\ spent = 0
  /\ trace = <<>>

\* The caller subscribes to the piped Observable.
Subscribe(s) ==
  /\ spent + Len(producer.sync) <= MaxCalls
  /\ ~subscriber[s][Top].created
  /\ \A r \in SubIds : r < s => subscriber[r][Top].created
  /\ Install(ObservableSubscribe(World, s, Top, 0))

\* The user's producer notifies its Subscriber after its body has returned.
SourceEmit(s, m) ==
  /\ spent < MaxCalls
  /\ subscriber[s][0].created
  /\ Install(Emit(World, s, m, 0))

\* The caller unsubscribes the Subscription that subscribe returned.
CallerUnsubscribe(s) ==
  /\ spent < MaxCalls
  /\ subscriber[s][Top].created
  /\ Install(Unsubscribe([World EXCEPT !.spent = @ + 1], s, Top, 0))

\* The caller adds a teardown to the Subscription that subscribe returned,
\* right after subscribing: const sub = o.subscribe(..); sub.add(..); ...
CallerAdd(s, kind) ==
  /\ spent < MaxCalls
  /\ subscriber[s][Top].created
  /\ \E n \in DOMAIN trace :
       /\ trace[n].d = 0
       /\ \A r \in DOMAIN trace : r > n => trace[r].d > 0
       /\ trace[n].s = s
       /\ trace[n].k \in {"subscribe", "add", "add.nothing"}
  /\ Install(Add([World EXCEPT !.spent = @ + 1], s, Top,
                 [kind |-> kind, ref |-> 0 - 1], 0))

\* The host runs a timer callback of debounceTime when it is due.
Fire(tm) ==
  /\ tm.due <= now
  /\ LET w1 == Log([World EXCEPT !.timers = @ \ {tm}], "fire", tm.s, tm.j, tm.id, 0)
     IN  Install(SubscriberNext(w1, tm.s, tm.j, tm.v, 1))

\* The clock advances towards the next pending timer once every due callback
\* has run.
Tick ==
  /\ timers # {}
  /\ \A tm \in timers : tm.due > now
  /\ now' = now + 1
  /\ UNCHANGED << operators, stream, producer, observer, subscriber, index,
                  time, timers, nextTimer, sent, spent, trace >>

Next ==
  \/ \E s \in SubIds : Subscribe(s)
  \/ \E s \in SubIds, m \in Notifications : SourceEmit(s, m)
  \/ \E s \in SubIds : CallerUnsubscribe(s)
  \/ \E s \in SubIds, kind \in TeardownKinds : CallerAdd(s, kind)
  \/ \E tm \in timers : Fire(tm)
  \/ Tick

Spec == Init /\ [][Next]_vars

----------------------------------------------------------------------------
\* Reading the trace.

Entries == DOMAIN trace

\* Entry q happens during the call of entry p.
During(p, q) ==
  /\ p < q
  /\ q \in Entries
  /\ \A r \in (p + 1)..q : trace[r].d > trace[p].d

Is(n, k, s, j) == trace[n].k = k /\ trace[n].s = s /\ trace[n].j = j

\* The handlers of the observer that Subscriber (s, j) wraps.
Handles(s, j, m) == j < Top \/ m \in observer

\* The teardowns Subscriber (s, j) held when entry p happened.
RegisteredAt(s, j, p) ==
  Cardinality({n \in 1..(p - 1) : Is(n, "add", s, j)})

\* The registry holds what add stored, and nothing else changes it.
RegistryIsAdds ==
  \A s \in SubIds, j \in 0..Top :
    Len(subscriber[s][j].teardowns) = RegisteredAt(s, j, Len(trace) + 1)

----------------------------------------------------------------------------
\* C1: once error or complete has been called on a Subscriber, its isStopped
\* flag is true in every later state and no later next(v) reaches the
\* wrapped observer's next.
StoppedIsFinal ==
  \A p \in Entries :
    trace[p].k \in {"error", "complete"} =>
      /\ subscriber[trace[p].s][trace[p].j].isStopped
      /\ \A q \in Entries :
           q > p => ~Is(q, "obs.next", trace[p].s, trace[p].j)

\* A next(v) was called on a stopped Subscriber whose observer defines next.
NextAfterStop ==
  \E p, q \in Entries :
    /\ p < q
    /\ trace[p].k \in {"error", "complete"}
    /\ Is(q, "next", trace[p].s, trace[p].j)
    /\ Handles(trace[p].s, trace[p].j, "next")

\* C2: the observer wrapped by one Subscriber receives at most one terminal
\* notification (error or complete) in total.
AtMostOneTerminal ==
  \A s \in SubIds, j \in 0..Top :
    Cardinality({n \in Entries :
                   Is(n, "obs.error", s, j) \/ Is(n, "obs.complete", s, j)}) <= 1

\* C3: every complete() sets isStopped, calls observer.complete iff the
\* observer defines it, and then, as the last thing it does, calls
\* unsubscribe(), which invokes every teardown registered at that moment.
CompleteAlwaysUnsubscribes ==
  \A p \in Entries :
    trace[p].k = "complete" =>
      LET s == trace[p].s
          j == trace[p].j
          d == trace[p].d
      IN  /\ subscriber[s][j].isStopped
          /\ Handles(s, j, "complete") <=>
               /\ p + 1 \in Entries
               /\ Is(p + 1, "obs.complete", s, j)
               /\ trace[p + 1].d = d + 1
          /\ \E u \in Entries :
               /\ During(p, u)
               /\ Is(u, "unsubscribe", s, j)
               /\ trace[u].d = d + 1
               /\ Handles(s, j, "complete") => u > p + 1
               /\ \A r \in Entries : r > u /\ During(p, r) => trace[r].d > d + 1
               /\ \A n \in 1..RegisteredAt(s, j, p) :
                    \E q \in Entries :
                      /\ During(u, q)
                      /\ Is(q, "teardown", s, j)
                      /\ trace[q].v = n
                      /\ trace[q].d = d + 2

\* complete() ran a teardown on a Subscriber whose observer defines no complete.
CompleteRanTeardown ==
  /\ "complete" \notin observer
  /\ \E p, q \in Entries :
       /\ trace[p].k = "complete"
       /\ trace[p].j = Top
       /\ During(p, q)
       /\ Is(q, "teardown", trace[p].s, Top)

\* C4: error(err) sets isStopped and calls observer.error iff the observer
\* defines it; during the call no unsubscribe() and no teardown runs, on that
\* Subscriber or any other, and no registry changes.
ErrorKeepsSubscription ==
  /\ RegistryIsAdds
  /\ \A p \in Entries :
       trace[p].k = "error" =>
         LET s == trace[p].s
             j == trace[p].j
         IN  /\ subscriber[s][j].isStopped
             /\ Handles(s, j, "error") <=>
                  /\ p + 1 \in Entries
                  /\ Is(p + 1, "obs.error", s, j)
                  /\ trace[p + 1].d = trace[p].d + 1
                  /\ trace[p + 1].v = trace[p].v
             /\ \A q \in Entries :
                  During(p, q) =>
                    trace[q].k \notin {"unsubscribe", "teardown", "add"}

\* The source sent an error through an operator chain whose Subscribers all
\* hold a teardown.
ErrorWithTeardowns ==
  /\ Top >= 1
  /\ \E p \in Entries :
       /\ trace[p].k = "error"
       /\ trace[p].j = 0
       /\ \A j \in 0..Top : RegisteredAt(trace[p].s, j, p) >= 1
       /\ During(p, p + Top)

\* C5: unsubscribe() on the Subscription returned by subscribing to an
\* operator-built Observable invokes, before it returns, the teardown that
\* the source producer returned.
UnsubscribeReachesSource ==
  \A p \in Entries :
    /\ Is(p, "unsubscribe", trace[p].s, Top)
    /\ trace[p].d = 0
    /\ Top >= 1
    /\ producer.teardown # "void"
    => \E q \in Entries :
         /\ During(p, q)
         /\ Is(q, "teardown", trace[p].s, 0)
         /\ subscriber[trace[p].s][0].teardowns[trace[q].v].kind
              = producer.teardown

\* The caller unsubscribed a chain of MaxOps operators and the source's
\* teardown ran.
ChainUnsubscribed ==
  /\ Top = MaxOps
  /\ \E p, q \in Entries :
       /\ Is(p, "unsubscribe", trace[p].s, Top)
       /\ trace[p].d = 0
       /\ During(p, q)
       /\ Is(q, "teardown", trace[p].s, 0)

----------------------------------------------------------------------------
\* Reading the trace of an operator stage.

\* The values of the entries of kind k on Subscriber (s, j), in order.
ValuesOf(k, s, j) ==
  LET sel == SelectSeq(trace, LAMBDA e : e.k = k /\ e.s = s /\ e.j = j)
  IN  [n \in 1..Len(sel) |-> sel[n].v]

Subscribed == {s \in SubIds : subscriber[s][Top].created}

\* Entry a is a value arriving at a debounceTime stage: the next handler of its
\* inline observer is invoked.
Arrival(a) ==
  /\ trace[a].k = "obs.next"
  /\ trace[a].j < Top
  /\ stream[trace[a].j + 1] = "debounceTime"

\* Entry q is a notification arriving at the stage that wraps Subscriber (s, j).
Upstream(q, s, j) ==
  /\ trace[q].k \in {"obs.next", "obs.error", "obs.complete"}
  /\ trace[q].s = s
  /\ trace[q].j = j

\* The handle of the timer that arrival a armed.
TimerOf(a) ==
  IF trace[a + 1].k = "setTimeout" THEN trace[a + 1].v ELSE trace[a + 2].v

Pending(id) == \E tm \in timers : tm.id = id

FiredAt(id) == {q \in Entries : trace[q].k = "fire" /\ trace[q].v = id}

\* The callback of arrival a's timer has run: it called next(v) downstream.
Delivered(a) == FiredAt(TimerOf(a)) # {}

\* The callback of arrival a's timer ran delay after the arrival and passed the
\* arrived value to the downstream Subscriber.
DeliveredOnTime(a) ==
  \A q \in FiredAt(TimerOf(a)) :
    /\ trace[q].t = trace[a].t + Delay
    /\ q + 1 \in Entries
    /\ Is(q + 1, "next", trace[a].s, trace[a].j + 1)
    /\ trace[q + 1].v = trace[a].v

\* A later notification reached the stage before the clock passed t + delay.
SupersededInTime(a) ==
  \E q \in Entries :
    /\ q > a
    /\ Upstream(q, trace[a].s, trace[a].j)
    /\ trace[q].t < trace[a].t + Delay

\* A later notification reached the stage while arrival a was still waiting.
SupersededWaiting(a) ==
  \E q \in Entries :
    /\ q > a
    /\ Upstream(q, trace[a].s, trace[a].j)
    /\ \A f \in FiredAt(TimerOf(a)) : f > q

----------------------------------------------------------------------------
\* C6: every subscribe call runs the producer once on a Subscriber of its own;
\* a call made on one subscription touches no Subscriber of another and
\* cancels nothing another subscription is waiting for; a producer that
\* sends 1, 2 inside its body delivers 1, 2 to each subscriber.
EachSubscribeIsIndependent ==
  /\ \A s \in Subscribed :
       Cardinality({n \in Entries : Is(n, "producer", s, 0)}) = 1
  /\ \A p, q \in Entries : During(p, q) => trace[q].s = trace[p].s
  /\ \A p, q \in Entries :
       /\ p < q
       /\ trace[p].k = "setTimeout"
       /\ trace[q].k = "clearTimeout"
       /\ trace[q].v = trace[p].v
       /\ \A f \in FiredAt(trace[p].v) : f > q
       => trace[q].s = trace[p].s
  /\ \A s \in Subscribed :
       Top = 0 /\ producer.sync = <<"next", "next">> /\ "next" \in observer
         => /\ Len(ValuesOf("obs.next", s, 0)) >= 2
            /\ SubSeq(ValuesOf("obs.next", s, 0), 1, 2) = <<1, 2>>

\* C7: map hands the k-th value of one subscription, counted from 0, to the
\* downstream Subscriber as project(v_k, k), in order, every subscription
\* counting from 0 on its own.
MapProjectsInOrder ==
  \A s \in SubIds, j \in 1..Top :
    stream[j] = "map" =>
      LET up == ValuesOf("obs.next", s, j - 1)
          down == ValuesOf("next", s, j)
      IN  /\ Len(down) = Len(up)
          /\ \A n \in 1..Len(up) : down[n] = Project(up[n], n - 1)

\* A second subscription mapped its first value after the first subscription
\* had mapped one.
MapCountsPerSubscription ==
  \E j \in 1..Top :
    /\ stream[j] = "map"
    /\ \E p, q \in Entries :
         /\ p < q
         /\ Is(p, "next", 1, j)
         /\ Is(q, "next", 2, j)

\* C8 as stated: with one subscription, a value arriving at debounceTime at
\* time t is delivered downstream iff no later next, error or complete
\* reaches the stage before t + delay, and it is delivered at t + delay.
TrailingEdgeByTime ==
  Cardinality(Subscribed) <= 1 =>
    \A a \in Entries :
      Arrival(a) /\ ~Pending(TimerOf(a)) =>
        /\ Delivered(a) <=> ~SupersededInTime(a)
        /\ DeliveredOnTime(a)

\* C8 as amended: the value is delivered iff no later notification reaches the
\* stage while it waits, that is before t + delay or at t + delay ahead of
\* the timer callback; it is delivered at t + delay; a value followed by
\* another less than delay later is never delivered.
TrailingEdgeDebounce ==
  Cardinality(Subscribed) <= 1 =>
    \A a \in Entries :
      Arrival(a) =>
        /\ SupersededInTime(a) => ~Delivered(a)
        /\ DeliveredOnTime(a)
        /\ ~Pending(TimerOf(a)) => (Delivered(a) <=> ~SupersededWaiting(a))

\* A burst of two values, the second less than delay after the first: the
\* second was delivered.
BurstDelivered ==
  /\ Cardinality(Subscribed) = 1
  /\ \E a, b \in Entries :
       /\ a < b
       /\ Arrival(a)
       /\ Arrival(b)
       /\ trace[b].s = trace[a].s
       /\ trace[b].j = trace[a].j
       /\ trace[b].t < trace[a].t + Delay
       /\ Delivered(b)

\* C9: when error or complete reaches debounceTime, the handler clears the
\* timer before it forwards the notification; no value that was waiting is
\* delivered, then or later, and the downstream Subscriber gets the terminal
\* notification only.
TerminalDropsPending ==
  \A p \in Entries :
    /\ trace[p].k \in {"obs.error", "obs.complete"}
    /\ trace[p].j < Top
    /\ stream[trace[p].j + 1] = "debounceTime"
    => LET s == trace[p].s
           j == trace[p].j
       IN  /\ p + 2 \in Entries
           /\ trace[p + 1].k = "clearTimeout"
           /\ trace[p + 1].d = trace[p].d + 1
           /\ Is(p + 2, IF trace[p].k = "obs.error" THEN "error" ELSE "complete",
                 s, j + 1)
           /\ trace[p + 2].v = trace[p].v
           /\ \A a \in 1..(p - 1) :
                Arrival(a) /\ trace[a].s = s /\ trace[a].j = j =>
                  /\ ~Pending(TimerOf(a))
                  /\ \A f \in FiredAt(TimerOf(a)) : f < p
           /\ \A q \in Entries : During(p, q) => ~Is(q, "next", s, j + 1)

\* error or complete reached debounceTime while a value was waiting.
TerminalWhileWaiting ==
  \E a, p \in Entries :
    /\ a < p
    /\ Arrival(a)
    /\ trace[p].k \in {"obs.error", "obs.complete"}
    /\ trace[p].s = trace[a].s
    /\ trace[p].j = trace[a].j
    /\ trace[p + 1].k = "clearTimeout"
    /\ trace[p + 1].v = TimerOf(a)
    /\ ~Delivered(a)
    /\ trace[p].t < trace[a].t + Delay

----------------------------------------------------------------------------
\* C11: pipe(...fns) is the left fold of fns over the source: no operator
\* gives the source itself, one operator gives op(source), and several are
\* applied in list order, each exactly once (every subscribe runs one
\* producer per operator, the first operator's innermost).
PipeIsLeftFold ==
  /\ Len(stream) = Len(operators)
  /\ operators = <<>> => stream = Source
  /\ Len(operators) = 1 => stream = ApplyOperator(operators[1], Source)
  /\ \A n \in 1..Len(operators) :
       stream[n] = operators[n]
  /\ \A s \in Subscribed, j \in Levels :
       Cardinality({n \in Entries : Is(n, "producer", s, j)})
         = IF j <= Len(operators) THEN 1 ELSE 0

\* Two different operators were piped and the result was subscribed.
PipedTwoOperators ==
  /\ Len(operators) = 2
  /\ operators[1] # operators[2]
  /\ Subscribed # {}

\* The teardown invocations made by the unsubscribe call of entry u itself.
DirectTeardowns(u) ==
  {q \in (u + 1)..Len(trace) : /\ Is(q, "teardown", trace[u].s, trace[u].j)
                               /\ trace[q].d = trace[u].d + 1
                               /\ During(u, q)}

\* C12: one unsubscribe() of a Subscription holding N teardowns, functions
\* and unsubscribables mixed, invokes each of them exactly once, in the
\* order they were added; add of an empty teardown stores nothing.
UnsubscribeRunsEachOnceInOrder ==
  /\ \A u \in Entries :
       trace[u].k = "unsubscribe" =>
         LET N == RegisteredAt(trace[u].s, trace[u].j, u)
             T == DirectTeardowns(u)
         IN  /\ \A q \in T : trace[q].v \in 1..N
             /\ \A n \in 1..N : Cardinality({q \in T : trace[q].v = n}) = 1
             /\ \A q1, q2 \in T : q1 < q2 => trace[q1].v < trace[q2].v
  /\ RegistryIsAdds
  /\ \A s \in SubIds, j \in 0..Top :
       \A n \in DOMAIN subscriber[s][j].teardowns :
         subscriber[s][j].teardowns[n].kind # "void"

\* The caller added a function and an empty teardown to a Subscription that
\* already held an unsubscribable, and then unsubscribed it.
MixedRegistryUnsubscribed ==
  \E s \in SubIds, u \in Entries :
    /\ Is(u, "unsubscribe", s, Top)
    /\ trace[u].d = 0
    /\ Cardinality(DirectTeardowns(u)) >= 2
    /\ \E a \in 1..(u - 1) : Is(a, "add.nothing", s, Top) /\ trace[a].d = 0
    /\ \E n1, n2 \in DOMAIN subscriber[s][Top].teardowns :
         /\ subscriber[s][Top].teardowns[n1].kind = "function"
         /\ subscriber[s][Top].teardowns[n2].kind \in {"unsubscribable", "subscription"}

\* What map stages 1..stages make of the source's value, each with counter i.
RECURSIVE Projected(_, _, _)
Projected(value, i, stages) ==
  IF stages = 0 THEN value
  ELSE Project(Projected(value, i, stages - 1), i)

\* The notifications of the producer's body up to its first error or complete.
Leading ==
  {n \in DOMAIN producer.sync : \A r \in 1..(n - 1) : producer.sync[r] = "next"}

\* Entry q, of kind k on Subscriber (s, j), is the n-th of the call of entry p.
NthDuring(p, q, n, k, s, j) ==
  /\ Is(q, k, s, j)
  /\ During(p, q)
  /\ Cardinality({r \in (p + 1)..(q - 1) : Is(r, k, s, j)}) = n - 1

\* C13: subscribe runs the producer synchronously: within the subscribe call
\* the source's Subscriber is sent the body's notifications in body order,
\* each one up to the first error or complete reaches the wrapped observer
\* inside its own call, and through a chain of map operators the caller's
\* observer has received the projected values, in order, and the terminal
\* notification it handles, before subscribe returns.
SubscribeDeliversSynchronously ==
  \A s \in Subscribed :
    \E p \in Entries :
      /\ Is(p, "subscribe", s, Top)
      /\ trace[p].d = 0
      /\ \A n \in DOMAIN producer.sync :
           \E q \in Entries :
             /\ During(p, q)
             /\ Is(q, producer.sync[n], s, 0)
             /\ trace[q].v = IF producer.sync[n] = "next" THEN n
                             ELSE IF producer.sync[n] = "error" THEN 400 + n
                             ELSE 0
             /\ Cardinality({r \in (p + 1)..(q - 1) :
                               trace[r].j = 0 /\ trace[r].k \in Notifications})
                  = n - 1
             /\ (n \in Leading /\ Handles(s, 0, producer.sync[n])) =>
                  /\ trace[q + 1].k = "obs." \o producer.sync[n]
                  /\ trace[q + 1].s = s /\ trace[q + 1].j = 0
                  /\ trace[q + 1].v = trace[q].v
      /\ (\A k \in DOMAIN operators : operators[k] = "map") =>
           /\ \A n \in Leading :
                LET m == producer.sync[n]
                IN  m \in observer =>
                      \E q \in Entries :
                        /\ NthDuring(p, q, IF m = "next" THEN n ELSE 1,
                                     "obs." \o m, s, Top)
                        /\ trace[q].v = IF m = "next" THEN Projected(n, n - 1, Top)
                                        ELSE IF m = "error" THEN 400 + n
                                        ELSE 0
           /\ Cardinality({q \in Entries : During(p, q) /\ Is(q, "obs.next", s, Top)})
                = Cardinality({n \in Leading : producer.sync[n] = "next"})

\* The producer's body sent two values, and the caller's observer received
\* both through two map operators before subscribe returned.
SyncValuesThroughMaps ==
  \E s \in Subscribed, p, q1, q2 \in Entries :
    /\ operators = <<"map", "map">>
    /\ producer.sync = <<"next", "next">>
    /\ Is(p, "subscribe", s, Top)
    /\ During(p, q1) /\ During(p, q2) /\ q1 < q2
    /\ Is(q1, "obs.next", s, Top) /\ trace[q1].v = Project(Project(1, 0), 0)
    /\ Is(q2, "obs.next", s, Top) /\ trace[q2].v = Project(Project(2, 1), 1)

\* C14: at every instant a debounced Stream has at most one pending timer,
\* and it is the one its timer slot names.
AtMostOnePendingTimer ==
  \A j \in Stages :
    /\ Cardinality({tm \in timers : tm.j = j}) <= 1
    /\ \A tm \in timers : tm.j = j => tm.id = time[j]

\* A second value arrived while the first was waiting: the first timer was
\* cancelled before it fired and the second is pending.
SecondValueWhileWaiting ==
  \E a1, a2 \in Entries :
    /\ a1 < a2
    /\ Arrival(a1) /\ Arrival(a2)
    /\ trace[a1].j = trace[a2].j
    /\ trace[a2 + 1].k = "clearTimeout"
    /\ trace[a2 + 1].v = TimerOf(a1)
    /\ FiredAt(TimerOf(a1)) = {}
    /\ \A r \in 1..a2 : ~(trace[r].k = "clearTimeout" /\ trace[r].v = TimerOf(a1))
    /\ Pending(TimerOf(a2))

\* Arrival a is waiting when entry u happens: its timer has neither fired nor
\* been cancelled before u.
WaitingAt(a, u) ==
  /\ a < u
  /\ \A f \in FiredAt(TimerOf(a)) : f > u
  /\ \A r \in (a + 1)..u :
       ~(trace[r].k = "clearTimeout" /\ trace[r].v = TimerOf(a))

\* C15: unsubscribe() cancels no debounce timer: a value waiting when the
\* caller unsubscribes keeps its timer, which stays pending until it fires,
\* calling next(v) on the downstream Subscriber, unless a later upstream
\* notification cancels it.
UnsubscribeKeepsTimer ==
  /\ \A c \in Entries :
       trace[c].k = "clearTimeout" =>
         /\ c > 1
         /\ trace[c - 1].k \in {"obs.next", "obs.error", "obs.complete"}
         /\ trace[c - 1].d = trace[c].d - 1
  /\ \A a \in Entries :
       Arrival(a) =>
         \A u \in (a + 1)..Len(trace) :
           ( /\ Is(u, "unsubscribe", trace[a].s, Top)
             /\ trace[u].d = 0
             /\ WaitingAt(a, u) ) =>
               /\ \/ Pending(TimerOf(a))
                  \/ Delivered(a)
                  \/ \E c \in (u + 1)..Len(trace) :
                       trace[c].k = "clearTimeout" /\ trace[c].v = TimerOf(a)
               /\ DeliveredOnTime(a)

\* The caller unsubscribed while a value was waiting, and the timer fired
\* afterwards and passed the value to the downstream Subscriber.
FiredAfterUnsubscribe ==
  \E f \in Entries :
    /\ trace[f].k = "fire"
    /\ \E a \in 1..(f - 1) :
         /\ Arrival(a)
         /\ f \in FiredAt(TimerOf(a))
         /\ Is(f + 1, "next", trace[a].s, trace[a].j + 1)
         /\ trace[f + 1].v = trace[a].v
         /\ \E u \in (a + 1)..(f - 1) :
              /\ Is(u, "unsubscribe", trace[a].s, Top)
              /\ trace[u].d = 0
              /\ WaitingAt(a, u)

\* C16: the timer slot of a debounceTime stage is shared by its
\* subscriptions: a next, error or complete arriving on another
\* subscription's upstream while a value waits cancels that value's timer,
\* and the value is never delivered.
SharedTimerCancelsOther ==
  \A a \in Entries :
    Arrival(a) =>
      \A q \in (a + 1)..Len(trace) :
        ( /\ Upstream(q, trace[q].s, trace[a].j)
          /\ trace[q].s # trace[a].s
          /\ WaitingAt(a, q) ) =>
            /\ q + 1 \in Entries
            /\ trace[q + 1].k = "clearTimeout"
            /\ trace[q + 1].v = TimerOf(a)
            /\ ~Pending(TimerOf(a))
            /\ ~Delivered(a)

\* A value of one subscription was waiting when a notification reached the
\* same stage on the other subscription.
OtherSubscriptionWhileWaiting ==
  \E a \in Entries :
    /\ Arrival(a)
    /\ \E q \in (a + 1)..Len(trace) :
         /\ Upstream(q, trace[q].s, trace[a].j)
         /\ trace[q].s # trace[a].s
         /\ WaitingAt(a, q)
         /\ trace[q + 1].k = "clearTimeout"

\* C17: unsubscribe() is not idempotent: every call invokes every registered
\* teardown again, so a teardown has been invoked as many times as
\* unsubscribe() was called on its Subscription since it was added, and no
\* call changes the registry.
UnsubscribeRepeatsTeardowns ==
  /\ RegistryIsAdds
  /\ \A a \in Entries :
       trace[a].k = "add" =>
         LET s == trace[a].s
             j == trace[a].j
         IN  Cardinality({q \in (a + 1)..Len(trace) :
                            Is(q, "teardown", s, j) /\ trace[q].v = trace[a].v})
               = Cardinality({u \in (a + 1)..Len(trace) :
                                Is(u, "unsubscribe", s, j)})
  /\ \A q \in Entries :
       trace[q].k \in {"add", "add.nothing"} =>
         \A u \in 1..(q - 1) :
           trace[u].k = "unsubscribe" => ~During(u, q)

\* The caller unsubscribed the same Subscription twice and its first
\* teardown ran in both calls.
UnsubscribedTwice ==
  \E s \in SubIds :
    \E u1 \in Entries :
      /\ Is(u1, "unsubscribe", s, Top) /\ trace[u1].d = 0
      /\ u1 + 1 \in Entries
      /\ Is(u1 + 1, "teardown", s, Top)
      /\ \E u2 \in (u1 + 1)..Len(trace) :
           /\ Is(u2, "unsubscribe", s, Top) /\ trace[u2].d = 0
           /\ u2 + 1 \in Entries
           /\ Is(u2 + 1, "teardown", s, Top)
           /\ trace[u2 + 1].v = trace[u1 + 1].v

\* C18: when the source calls complete() after subscribe has returned and
\* the completion passes through one or more operators, the source's
\* teardown is invoked exactly once in the course of that completion.
SourceTeardownOncePerCompletion ==
  \A p \in Entries :
    ( /\ trace[p].k = "complete"
      /\ trace[p].j = 0
      /\ trace[p].d = 0
      /\ Top >= 1
      /\ RegisteredAt(trace[p].s, 0, p) = 1 ) =>
        Cardinality({q \in (p + 1)..Len(trace) :
                       /\ Is(q, "teardown", trace[p].s, 0)
                       /\ During(p, q)}) = 1

\* C19: when the producer calls complete() inside its body, the teardown it
\* returns is invoked as part of that completion, within the subscribe call,
\* without the caller calling unsubscribe().
SyncCompleteRunsTeardown ==
  \A s \in Subscribed :
    ( /\ \E n \in DOMAIN producer.sync : producer.sync[n] = "complete"
      /\ producer.teardown # "void" ) =>
        \E p \in Entries :
          /\ Is(p, "subscribe", s, Top)
          /\ trace[p].d = 0
          /\ \E q \in (p + 1)..Len(trace) :
               Is(q, "teardown", s, 0) /\ During(p, q)

\* Error or complete was called on Subscriber (s, j) before entry q.
TerminatedBefore(s, j, q) ==
  \E p \in 1..(q - 1) :
    trace[p].k \in {"error", "complete"} /\ trace[p].s = s /\ trace[p].j = j

\* C20: unsubscribe() leaves the stopped flag alone: the flag is set exactly
\* when error or complete was called, and a next(v) on a Subscriber that was
\* unsubscribed but never sent error or complete still reaches the wrapped
\* observer's next.
UnsubscribeLeavesStopped ==
  /\ \A s \in SubIds, j \in 0..Top :
       subscriber[s][j].isStopped <=> TerminatedBefore(s, j, Len(trace) + 1)
  /\ \A q \in Entries :
       ( /\ trace[q].k = "next"
         /\ Handles(trace[q].s, trace[q].j, "next")
         /\ ~TerminatedBefore(trace[q].s, trace[q].j, q) ) =>
           /\ q + 1 \in Entries
           /\ Is(q + 1, "obs.next", trace[q].s, trace[q].j)
           /\ trace[q + 1].v = trace[q].v

\* A value was sent to a Subscriber after it had been unsubscribed, without
\* error or complete, and reached its observer.
NextAfterUnsubscribe ==
  \E q \in Entries :
    /\ trace[q].k = "next"
    /\ ~TerminatedBefore(trace[q].s, trace[q].j, q)
    /\ \E u \in 1..(q - 1) : Is(u, "unsubscribe", trace[q].s, trace[q].j)
    /\ q + 1 \in Entries
    /\ Is(q + 1, "obs.next", trace[q].s, trace[q].j)

====
